---------------------------- MODULE Spec2Model ----------------------------
(***************************************************************************)
(* ghinst: install a binary from a GitHub release.                         *)
(*                                                                         *)
(* The model follows the latest revision of the program (the one with      *)
(* purge, the -dir flag and temp-file based extraction).  Strings whose    *)
(* characters the program inspects (artifact names, archive entry paths)   *)
(* are sequences of runes, each rune a TLA+ string; byte lengths are       *)
(* computed as Go's len does, so a rune outside ASCII counts its UTF-8     *)
(* width.  Identifiers that the program only compares for equality         *)
(* (owner, repo, tag) are plain strings.                                   *)
(***************************************************************************)
EXTENDS Integers, Sequences, FiniteSets, TLC

VARIABLES
    pc,          \* position of the running function
    stack,       \* the positions to return to, innermost caller first
    assets,      \* selectAsset: the release's artifact list
    goos,        \* selectAsset: runtime.GOOS
    goarch,      \* selectAsset: runtime.GOARCH
    osPhrases,   \* selectAsset: the phrases looked up for goos
    archPhrases, \* selectAsset: the phrases looked up for goarch
    candidates,  \* selectAsset: the candidates collected so far
    selIdx,      \* selectAsset: number of artifacts the filter loop has examined
    selResult,   \* selectAsset: the returned (Asset, error)
    tarStream,   \* findInTar: the entries of the tar stream, in stream order
    tarPos,      \* findInTar: number of headers tr.Next has consumed
    zipFiles,    \* findInZip: zr.File, the entries in listing order
    zipIdx,      \* findInZip: number of entries the range loop has visited
    best,        \* findInZip: index in zipFiles of the entry held by best, 0 for nil
    extResult,   \* the (name, file, error) returned by the extraction
    tmpFiles,    \* the files in os.TempDir(): temp file number -> its content
    fs,          \* the install root: path -> node
    clock,       \* the time of day
    callResult,  \* the function last called on the install root, its arguments,
                 \* what it returned and the names purge reported
    latest,      \* history: file name -> path and payload written by the last
                 \* successful installBinary for that name
    onlyInstalls, \* history: every call so far was an installBinary without error
    extName,     \* extractBinary: its argument assetName
    extFile,     \* extractBinary: its argument f, a temp file
    respBody,    \* the bytes the download URL serves
    target,      \* main: owner and repo asked for, and the release's tag name
    exitCode,    \* main: -1 while it runs, then its exit code
    arg,         \* the command-line argument, and the argument of parseTarget
    parsed       \* what parseTarget returned

selVars == <<assets, goos, goarch, osPhrases, archPhrases, candidates, selIdx, selResult>>
extVars == <<tarStream, tarPos, zipFiles, zipIdx, best, extResult, tmpFiles>>
rootVars == <<fs, clock, callResult, latest, onlyInstalls>>
mainVars == <<extName, extFile, respBody, target, exitCode, arg, parsed>>
vars == <<pc, stack, selVars, extVars, rootVars, mainVars>>

---------------------------------------------------------------------------
(* Bounds of the model *)

\* longest artifact list of a release
MaxAssets == 3

\* most entries of a tar stream
MaxTarEntries == 3

\* most entries of a zip listing
MaxZipEntries == 3

\* latest time of day
MaxClock == 3

\* the longest argument of parseTarget
MaxTargetLen == 7

---------------------------------------------------------------------------
(* Strings *)

\* the rune U+0130 (capital I with dot above): two bytes in UTF-8, lowercased
\* by unicode.ToLower to the one-byte "i"
IDot == "U+0130"

\* len(s) of one rune's UTF-8 encoding
RuneLen(c) == IF c = IDot THEN 2 ELSE 1

RECURSIVE ByteLen(_)
\* Go's len(s): the number of bytes of the string
ByteLen(s) == IF s = <<>> THEN 0 ELSE RuneLen(Head(s)) + ByteLen(Tail(s))

upperToLower ==
    [c \in {"A","B","C","D","E","F","G","H","I","J","K","L","M",
            "N","O","P","Q","R","S","T","U","V","W","X","Y","Z", IDot} |->
       CASE c = "A" -> "a" [] c = "B" -> "b" [] c = "C" -> "c" [] c = "D" -> "d"
         [] c = "E" -> "e" [] c = "F" -> "f" [] c = "G" -> "g" [] c = "H" -> "h"
         [] c = "I" -> "i" [] c = "J" -> "j" [] c = "K" -> "k" [] c = "L" -> "l"
         [] c = "M" -> "m" [] c = "N" -> "n" [] c = "O" -> "o" [] c = "P" -> "p"
         [] c = "Q" -> "q" [] c = "R" -> "r" [] c = "S" -> "s" [] c = "T" -> "t"
         [] c = "U" -> "u" [] c = "V" -> "v" [] c = "W" -> "w" [] c = "X" -> "x"
         [] c = "Y" -> "y" [] c = "Z" -> "z" [] c = IDot -> "i"]

\* strings.ToLower
ToLower(s) == [i \in 1..Len(s) |-> IF s[i] \in DOMAIN upperToLower THEN upperToLower[s[i]] ELSE s[i]]

\* strings.Contains
Contains(s, p) == \E i \in 0..(Len(s) - Len(p)) : SubSeq(s, i + 1, i + Len(p)) = p

\* strings.HasSuffix
HasSuffix(s, suffix) ==
    /\ Len(s) >= Len(suffix)
    /\ SubSeq(s, Len(s) - Len(suffix) + 1, Len(s)) = suffix

---------------------------------------------------------------------------
(* Calls and returns *)

\* a return: control goes back to the innermost caller, or the run of a
\* function called on its own is done
Return ==
    /\ pc' = IF stack = <<>> THEN "done" ELSE Head(stack)
    /\ stack' = IF stack = <<>> THEN <<>> ELSE Tail(stack)

---------------------------------------------------------------------------
(* Platform alias tables and the archive extensions *)

osAliases ==
    [o \in {"linux", "darwin", "windows"} |->
       CASE o = "linux" -> << <<"l", "i", "n", "u", "x">> >>
         [] o = "darwin" -> << <<"d", "a", "r", "w", "i", "n">>, <<"m", "a", "c", "o", "s">>, <<"o", "s", "x">> >>
         [] o = "windows" -> << <<"w", "i", "n", "d", "o", "w", "s">>, <<"w", "i", "n">> >>]

archAliases ==
    [a \in {"amd64", "arm64", "386"} |->
       CASE a = "amd64" -> << <<"a", "m", "d", "6", "4">>, <<"x", "8", "6", "_", "6", "4">> >>
         [] a = "arm64" -> << <<"a", "r", "m", "6", "4">>, <<"a", "a", "r", "c", "h", "6", "4">> >>
         [] a = "386" -> << <<"3", "8", "6">>, <<"i", "3", "8", "6">>, <<"i", "6", "8", "6">> >>]

archiveExts == << <<".", "t", "a", "r", ".", "g", "z">>, <<".", "t", "g", "z">>, <<".", "t", "a", "r", ".", "b", "z", "2">>, <<".", "t", "a", "r", ".", "x", "z">>, <<".", "z", "i", "p">> >>

\* mutant of isArchive: the extension may occur anywhere in the name
isArchiveAnywhere(name) == \E i \in 1..Len(archiveExts) : Contains(name, archiveExts[i])

isArchive(name) == \E i \in 1..Len(archiveExts) : HasSuffix(name, archiveExts[i])

matchesAny(s, phrases) == \E i \in 1..Len(phrases) : Contains(s, phrases[i])

---------------------------------------------------------------------------
(* selectAsset *)

\* Asset{}: the zero value returned beside an error
NoAsset == [Name |-> <<>>, BrowserDownloadURL |-> 0]

\* mutant of lessByNameLen: compares the lowercased names
lessByLowerLen(s, i, j) == ByteLen(ToLower(s[i].Name)) < ByteLen(ToLower(s[j].Name))

\* the less function handed to sort.Slice: by len of the original name
lessByNameLen(s, i, j) == ByteLen(s[i].Name) < ByteLen(s[j].Name)

Swap(s, i, j) == [s EXCEPT ![i] = s[j], ![j] = s[i]]

RECURSIVE sinkDown(_, _)
\* inner loop of the insertion sort: for j := i; j > a && less(j, j-1); j--
sinkDown(s, j) ==
    IF j > 1 /\ lessByNameLen(s, j, j - 1)
    THEN sinkDown(Swap(s, j, j - 1), j - 1)
    ELSE s

RECURSIVE insertionSortFrom(_, _)
insertionSortFrom(s, i) ==
    IF i > Len(s) THEN s ELSE insertionSortFrom(sinkDown(s, i), i + 1)

\* sort.Slice on a slice of at most 12 elements is an insertion sort
sortSlice(s) == insertionSortFrom(s, 2)

\* mutant of isCandidate: the archive-extension test is left out
isCandidateAnyExt(a, osPhr, archPhr) ==
    LET lower == ToLower(a.Name)
    IN  matchesAny(lower, osPhr) /\ matchesAny(lower, archPhr)

\* the three tests of the filter loop, on the lowercased name
isCandidate(a, osPhr, archPhr) ==
    LET lower == ToLower(a.Name)
    IN  /\ matchesAny(lower, osPhr)
        /\ matchesAny(lower, archPhr)
        /\ isArchive(lower)

\* mutant of SelLookup: the ok result of the map lookups is dropped, a missing
\* key yields the nil slice
SelLookupNoOk ==
    /\ pc = "selectAsset"
    /\ pc' = "selFilter"
    /\ UNCHANGED <<stack, extVars, rootVars, mainVars>>
    /\ osPhrases' = IF goos \in DOMAIN osAliases THEN osAliases[goos] ELSE <<>>
    /\ archPhrases' = IF goarch \in DOMAIN archAliases THEN archAliases[goarch] ELSE <<>>
    /\ UNCHANGED <<assets, goos, goarch, candidates, selIdx, selResult>>

\* selectAsset, lines 284-292: the two table lookups
SelLookup ==
    /\ pc = "selectAsset"
    /\ IF goos \notin DOMAIN osAliases
       THEN /\ selResult' = [asset |-> NoAsset, err |-> "unsupported OS"]
            /\ Return
            /\ UNCHANGED <<osPhrases, archPhrases>>
       ELSE IF goarch \notin DOMAIN archAliases
       THEN /\ selResult' = [asset |-> NoAsset, err |-> "unsupported architecture"]
            /\ Return
            /\ osPhrases' = osAliases[goos]
            /\ UNCHANGED archPhrases
       ELSE /\ pc' = "selFilter"
            /\ osPhrases' = osAliases[goos]
            /\ archPhrases' = archAliases[goarch]
            /\ UNCHANGED <<stack, selResult>>
    /\ UNCHANGED <<assets, goos, goarch, candidates, selIdx, extVars, rootVars, mainVars>>

\* one iteration of the filter loop, lines 295-300
SelFilter ==
    /\ pc = "selFilter"
    /\ selIdx < Len(assets)
    /\ LET a == assets[selIdx + 1]
       IN  candidates' = IF isCandidate(a, osPhrases, archPhrases)
                         THEN Append(candidates, a)
                         ELSE candidates
    /\ selIdx' = selIdx + 1
    /\ UNCHANGED <<pc, stack, assets, goos, goarch, osPhrases, archPhrases, selResult, extVars, rootVars, mainVars>>

\* after the loop, lines 302-311: fail on no candidate, else sort and return
SelPick ==
    /\ pc = "selFilter"
    /\ selIdx = Len(assets)
    /\ IF Len(candidates) = 0
       THEN /\ selResult' = [asset |-> NoAsset, err |-> "no asset found"]
            /\ UNCHANGED candidates
       ELSE /\ candidates' = sortSlice(candidates)
            /\ selResult' = [asset |-> candidates'[1], err |-> "nil"]
    /\ Return
    /\ UNCHANGED <<assets, goos, goarch, osPhrases, archPhrases, selIdx, extVars, rootVars, mainVars>>

---------------------------------------------------------------------------
(* Paths, permission bits and temp files *)

RECURSIVE stripTrailingSlashes(_)
stripTrailingSlashes(path) ==
    IF Len(path) > 0 /\ path[Len(path)] = "/"
    THEN stripTrailingSlashes(SubSeq(path, 1, Len(path) - 1))
    ELSE path

\* filepath.Base: the last element of the path, trailing slashes removed;
\* "." for the empty path and "/" for a path of slashes only
Base(path) ==
    IF path = <<>> THEN <<".">>
    ELSE LET p == stripTrailingSlashes(path)
             seps == {i \in 1..Len(p) : p[i] = "/"}
             last == IF seps = {} THEN 0 ELSE CHOOSE i \in seps : \A j \in seps : j <= i
             rest == SubSeq(p, last + 1, Len(p))
         IN  IF rest = <<>> THEN <<"/">> ELSE rest

\* filepath.Ext: the suffix beginning at the final dot of the final element,
\* empty when that element has no dot
Ext(path) ==
    LET dots == {i \in 1..Len(path) :
                   path[i] = "." /\ \A j \in i..Len(path) : path[j] # "/"}
    IN  IF dots = {} THEN <<>>
        ELSE SubSeq(path, CHOOSE i \in dots : \A j \in dots : j <= i, Len(path))

\* mode&0111 != 0: an execute bit of owner, group or other is set
hasExecBit(mode) ==
    \/ (mode \div 64) % 2 = 1
    \/ (mode \div 8) % 2 = 1
    \/ mode % 2 = 1

\* the number os.CreateTemp gives a new temp file: one no existing file has
freshTmp ==
    IF DOMAIN tmpFiles = {} THEN 1
    ELSE 1 + CHOOSE n \in DOMAIN tmpFiles : \A k \in DOMAIN tmpFiles : k <= n

\* the three values findInTar, findInZip and extractBinary return
Extracted(name, file, err) == [name |-> name, file |-> file, err |-> err]

\* writeTempFile(r) followed by the caller's return: on success the temp file
\* holds what r yields and is returned under binName; on a failure of
\* CreateTemp, Copy or Seek no temp file is left and the error is returned
writeTempFileAndReturn(binName, content) ==
    \E ok \in BOOLEAN :
        IF ok
        THEN /\ tmpFiles' = tmpFiles @@ (freshTmp :> content)
             /\ extResult' = Extracted(binName, freshTmp, "nil")
        ELSE /\ UNCHANGED tmpFiles
             /\ extResult' = Extracted(<<>>, 0, "temp file error")

---------------------------------------------------------------------------
(* findInTar *)

\* the entry tr.Next is about to read
tarHdr == tarStream[tarPos + 1]

\* mutant of tarWanted: the type of the entry is not looked at
tarWantedAnyType(hdr) == hasExecBit(hdr.Mode)

\* the test of line 121, negated: a regular file with an execute bit
tarWanted(hdr) == hdr.Typeflag = "TypeReg" /\ hasExecBit(hdr.Mode)

\* tr.Next returns io.EOF: no executable in the archive
TarEOF ==
    /\ pc = "findInTar"
    /\ tarPos = Len(tarStream)
    /\ extResult' = Extracted(<<>>, 0, "no executable found in archive")
    /\ Return
    /\ UNCHANGED <<tarStream, tarPos, zipFiles, zipIdx, best, tmpFiles, selVars, rootVars, mainVars>>

\* tr.Next fails on a header it cannot parse
TarBadHeader ==
    /\ pc = "findInTar"
    /\ tarPos < Len(tarStream)
    /\ tarHdr.Typeflag = "corrupt"
    /\ extResult' = Extracted(<<>>, 0, "tar: invalid header")
    /\ Return
    /\ UNCHANGED <<tarStream, tarPos, zipFiles, zipIdx, best, tmpFiles, selVars, rootVars, mainVars>>

\* an entry that is no regular file or has no execute bit: continue
TarSkip ==
    /\ pc = "findInTar"
    /\ tarPos < Len(tarStream)
    /\ tarHdr.Typeflag # "corrupt"
    /\ ~tarWanted(tarHdr)
    /\ tarPos' = tarPos + 1
    /\ UNCHANGED <<pc, stack, tarStream, zipFiles, zipIdx, best, extResult, tmpFiles, selVars, rootVars, mainVars>>

\* the first executable regular file: its body goes to a temp file
TarTake ==
    /\ pc = "findInTar"
    /\ tarPos < Len(tarStream)
    /\ tarHdr.Typeflag # "corrupt"
    /\ tarWanted(tarHdr)
    /\ tarPos' = tarPos + 1
    /\ writeTempFileAndReturn(Base(tarHdr.Name), tarHdr.Body)
    /\ Return
    /\ UNCHANGED <<tarStream, zipFiles, zipIdx, best, selVars, rootVars, mainVars>>

---------------------------------------------------------------------------
(* findInZip *)

\* mutant of ZipVisit: whichever of an executable or an extensionless entry
\* is seen first is kept, an executable found later does not replace it
ZipVisitFirstSeen ==
    /\ pc = "findInZip"
    /\ zipIdx < Len(zipFiles)
    /\ LET f == zipFiles[zipIdx + 1]
           base == Base(f.Name)
           isExec == hasExecBit(f.Mode)
           noExt == Ext(base) = <<>>
       IN  IF f.IsDir
           THEN /\ zipIdx' = zipIdx + 1
                /\ UNCHANGED <<pc, best>>
           ELSE /\ best' = IF (isExec \/ noExt) /\ best = 0 THEN zipIdx + 1 ELSE best
                /\ zipIdx' = zipIdx + 1
                /\ UNCHANGED pc
    /\ UNCHANGED <<stack, tarStream, tarPos, zipFiles, extResult, tmpFiles, selVars, rootVars, mainVars>>

\* mutant of ZipVisit: the best == nil guard of the fallback is missing, a
\* later extensionless entry replaces an earlier one
ZipVisitLastFallback ==
    /\ pc = "findInZip"
    /\ zipIdx < Len(zipFiles)
    /\ LET f == zipFiles[zipIdx + 1]
           base == Base(f.Name)
           isExec == hasExecBit(f.Mode)
           noExt == Ext(base) = <<>>
       IN  IF f.IsDir
           THEN /\ zipIdx' = zipIdx + 1
                /\ UNCHANGED <<pc, best>>
           ELSE IF isExec
           THEN /\ best' = zipIdx + 1
                /\ pc' = "zipOpen"
                /\ UNCHANGED zipIdx
           ELSE /\ best' = IF noExt THEN zipIdx + 1 ELSE best
                /\ zipIdx' = zipIdx + 1
                /\ UNCHANGED pc
    /\ UNCHANGED <<stack, tarStream, tarPos, zipFiles, extResult, tmpFiles, selVars, rootVars, mainVars>>

\* one iteration of the range loop, lines 145-161
ZipVisit ==
    /\ pc = "findInZip"
    /\ zipIdx < Len(zipFiles)
    /\ LET f == zipFiles[zipIdx + 1]
           base == Base(f.Name)
           isExec == hasExecBit(f.Mode)
           noExt == Ext(base) = <<>>
       IN  IF f.IsDir
           THEN /\ zipIdx' = zipIdx + 1
                /\ UNCHANGED <<pc, best>>
           ELSE IF isExec
           THEN /\ best' = zipIdx + 1
                /\ pc' = "zipOpen"
                /\ UNCHANGED zipIdx
           ELSE /\ best' = IF noExt /\ best = 0 THEN zipIdx + 1 ELSE best
                /\ zipIdx' = zipIdx + 1
                /\ UNCHANGED pc
    /\ UNCHANGED <<stack, tarStream, tarPos, zipFiles, extResult, tmpFiles, selVars, rootVars, mainVars>>

\* the range loop runs out of entries
ZipLoopEnd ==
    /\ pc = "findInZip"
    /\ zipIdx = Len(zipFiles)
    /\ pc' = "zipOpen"
    /\ UNCHANGED <<stack, tarStream, tarPos, zipFiles, zipIdx, best, extResult, tmpFiles, selVars, rootVars, mainVars>>

\* after the loop, lines 163-178: fail on nil, else open the entry and copy it
\* to a temp file; best.Open fails on an entry it cannot decompress
ZipOpen ==
    /\ pc = "zipOpen"
    /\ IF best = 0
       THEN /\ extResult' = Extracted(<<>>, 0, "no executable found in archive")
            /\ UNCHANGED tmpFiles
       ELSE IF ~zipFiles[best].Readable
       THEN /\ extResult' = Extracted(<<>>, 0, "zip: unsupported compression algorithm")
            /\ UNCHANGED tmpFiles
       ELSE writeTempFileAndReturn(Base(zipFiles[best].Name), zipFiles[best].Body)
    /\ Return
    /\ UNCHANGED <<tarStream, tarPos, zipFiles, zipIdx, best, selVars, rootVars, mainVars>>

---------------------------------------------------------------------------
(* The install root: a tree of directories, files and symlinks *)

\* A path below the install root is the sequence of its elements; fs maps
\* each existing path to its node.  The root itself always exists.  Of the
\* modification times only those purge can read are kept, the ones of the
\* entries of an owner's directory; the others are recorded as 0.

GhinstDir == <<"g", "h", "i", "n", "s", "t">>
BinDir == <<"b", "i", "n">>
At == <<"@">>

\* the time recorded for the entry at p when it changes at time t
stamp(p, t) == IF Len(p) = 3 /\ p[1] = GhinstDir THEN t ELSE 0

DirNode(t) == [kind |-> "dir", mtime |-> t, content |-> <<>>, target |-> <<>>]
FileNode(t, c) == [kind |-> "file", mtime |-> t, content |-> c, target |-> <<>>]
LinkNode(t, to) == [kind |-> "symlink", mtime |-> t, content |-> <<>>, target |-> to]

Parent(p) == SubSeq(p, 1, Len(p) - 1)

IsPrefix(p, q) == Len(p) <= Len(q) /\ SubSeq(q, 1, Len(p)) = p

RECURSIVE splitPath(_, _)
\* the elements of a slash-separated path, cur being the element in progress
splitPath(s, cur) ==
    IF s = <<>> THEN (IF cur = <<>> THEN <<>> ELSE <<cur>>)
    ELSE IF Head(s) = "/"
         THEN (IF cur = <<>> THEN <<>> ELSE <<cur>>) \o splitPath(Tail(s), <<>>)
         ELSE splitPath(Tail(s), Append(cur, Head(s)))

\* filepath.Join(dir, names...): the path of dir extended by the elements of
\* the names
Join(dir, names) ==
    LET RECURSIVE all(_)
        all(ns) == IF ns = <<>> THEN <<>> ELSE splitPath(Head(ns), <<>>) \o all(Tail(ns))
    IN  dir \o all(names)

\* a change in a directory sets the directory's modification time
touch(f, p, t) == IF p \in DOMAIN f THEN [f EXCEPT ![p].mtime = stamp(p, t)] ELSE f

RECURSIVE mkdirAll(_, _, _)
\* os.MkdirAll: creates the missing directories of p, fails on a non-directory
mkdirAll(f, p, t) ==
    IF p = <<>> THEN [ok |-> TRUE, fs |-> f]
    ELSE IF p \in DOMAIN f THEN [ok |-> f[p].kind = "dir", fs |-> f]
    ELSE LET up == mkdirAll(f, Parent(p), t)
         IN  IF ~up.ok THEN [ok |-> FALSE, fs |-> f]
             ELSE [ok |-> TRUE, fs |-> touch(up.fs, Parent(p), t) @@ (p :> DirNode(stamp(p, t)))]

\* os.RemoveAll: removes p and all it contains
removeAll(f, p, t) ==
    IF p \notin DOMAIN f THEN f
    ELSE touch([q \in {q \in DOMAIN f : ~IsPrefix(p, q)} |-> f[q]], Parent(p), t)

\* os.Remove: removes a file, a symlink or an empty directory; the caller
\* drops the error
remove(f, p, t) ==
    IF p \notin DOMAIN f THEN f
    ELSE IF \E q \in DOMAIN f : q # p /\ IsPrefix(p, q) THEN f
    ELSE touch([q \in DOMAIN f \ {p} |-> f[q]], Parent(p), t)

\* os.OpenFile(O_CREATE|O_WRONLY|O_TRUNC, 0755): an existing file is emptied,
\* a missing one created; fails on a directory
openTrunc(f, p, t) ==
    IF p \in DOMAIN f
    THEN IF f[p].kind = "file"
         THEN [ok |-> TRUE, fs |-> [f EXCEPT ![p] = FileNode(stamp(p, t), <<>>)]]
         ELSE [ok |-> FALSE, fs |-> f]
    ELSE [ok |-> TRUE, fs |-> touch(f, Parent(p), t) @@ (p :> FileNode(stamp(p, t), <<>>))]

\* os.Symlink: fails when newname exists
symlink(f, oldname, newname, t) ==
    IF newname \in DOMAIN f THEN [ok |-> FALSE, fs |-> f]
    ELSE [ok |-> TRUE, fs |-> touch(f, Parent(newname), t) @@ (newname :> LinkNode(stamp(newname, t), oldname))]

---------------------------------------------------------------------------
(* installBinary *)

\* filepath.Join(baseDir, "ghinst", owner, repo+"@"+tag), below baseDir
installDirOf(owner, repo, tag) == Join(<<>>, <<GhinstDir, owner, repo \o At \o tag>>)

\* the steps of installBinary at which the operating system may refuse
InstallFailures == {"none", "MkdirAll", "OpenFile", "Copy", "Chtimes", "MkdirAllBin", "Symlink"}

\* mutant of publishLink: a link already there is kept
keepLink(f, binPath, linkPath, t) ==
    IF linkPath \in DOMAIN f THEN [ok |-> TRUE, fs |-> f] ELSE symlink(f, binPath, linkPath, t)

\* lines 236-240: remove what is at linkPath, then link it to binPath
publishLink(f, binPath, linkPath, t) == symlink(remove(f, linkPath, t), binPath, linkPath, t)

\* mutant of cleanup: the deferred call does nothing
cleanupSkipped(f, installDir, t) == f

\* lines 209-213: the deferred os.RemoveAll(installDir) of a failing call
cleanup(f, installDir, t) == removeAll(f, installDir, t)

\* installBinary(baseDir, owner, repo, tag, binName, src) at time t, the
\* operating system failing the step failAt: the new tree and the error
installBinary(f, owner, repo, tag, binName, content, t, failAt) ==
    LET installDir == installDirOf(owner, repo, tag)
        binPath == Join(installDir, <<binName>>)
        linkDir == Join(<<>>, <<BinDir>>)
        linkPath == Join(linkDir, <<binName>>)
        made == mkdirAll(f, installDir, t)
        opened == openTrunc(made.fs, binPath, t)
        copied == [opened.fs EXCEPT ![binPath].content = content]
        touched == IF failAt = "Chtimes" THEN copied ELSE touch(copied, installDir, t)
        madeBin == mkdirAll(touched, linkDir, t)
        removed == remove(madeBin.fs, linkPath, t)
        linked == publishLink(madeBin.fs, binPath, linkPath, t)
        failed(g, e) == [fs |-> cleanup(g, installDir, t), link |-> <<>>, err |-> e]
    IN  IF failAt = "MkdirAll" \/ ~made.ok
        THEN [fs |-> f, link |-> <<>>, err |-> "mkdir installDir"]
        ELSE IF failAt = "OpenFile" \/ ~opened.ok THEN failed(made.fs, "open")
        ELSE IF failAt = "Copy" THEN failed(opened.fs, "copy")
        ELSE IF failAt = "MkdirAllBin" \/ ~madeBin.ok THEN failed(touched, "mkdir linkDir")
        ELSE IF failAt = "Symlink" \/ ~linked.ok THEN failed(removed, "symlink")
        ELSE [fs |-> linked.fs, link |-> linkPath, err |-> "nil"]

---------------------------------------------------------------------------
(* purge *)

\* strings.Cut(s, "@"): what is before the first "@", and whether there is one
cutAt(s) ==
    LET ats == {i \in 1..Len(s) : s[i] = "@"}
        first == CHOOSE i \in ats : \A j \in ats : i <= j
    IN  IF ats = {} THEN [before |-> s, found |-> FALSE]
        ELSE [before |-> SubSeq(s, 1, first - 1), found |-> TRUE]

\* the bytes of the characters of file names, in increasing order
byteOrder == <<"-", ".", "/", "0", "1", "2", "3", "4", "5", "6", "7", "8", "9", "@", "A", "B", "C", "D", "E", "F", "G", "H", "I", "J", "K", "L", "M", "N", "O", "P", "Q", "R", "S", "T", "U", "V", "W", "X", "Y", "Z", "_", "a", "b", "c", "d", "e", "f", "g", "h", "i", "j", "k", "l", "m", "n", "o", "p", "q", "r", "s", "t", "u", "v", "w", "x", "y", "z">>

byteOf == [c \in {byteOrder[i] : i \in 1..Len(byteOrder)} |->
              CHOOSE i \in 1..Len(byteOrder) : byteOrder[i] = c]

RECURSIVE nameLess(_, _)
\* a < b on strings: os.ReadDir returns the entries sorted by file name
nameLess(a, b) ==
    IF b = <<>> THEN FALSE
    ELSE IF a = <<>> THEN TRUE
    ELSE IF Head(a) = Head(b) THEN nameLess(Tail(a), Tail(b))
    ELSE byteOf[Head(a)] < byteOf[Head(b)]

RECURSIVE sortedNames(_)
sortedNames(S) ==
    IF S = {} THEN <<>>
    ELSE LET least == CHOOSE a \in S : \A b \in S \ {a} : nameLess(a, b)
         IN  <<least>> \o sortedNames(S \ {least})

\* os.ReadDir(dir): the names of the entries of dir, sorted
readDir(f, dir) == sortedNames({p[Len(p)] : p \in {q \in DOMAIN f : Parent(q) = dir}})

\* mutant of versionsOf: the directories whose name starts with repo
versionsOfByPrefix(f, ownerDir, repo) ==
    SelectSeq(readDir(f, ownerDir),
              LAMBDA name : /\ f[Append(ownerDir, name)].kind = "dir"
                            /\ IsPrefix(repo, name))

\* lines 365-374: the directories named repo@...
versionsOf(f, ownerDir, repo) ==
    SelectSeq(readDir(f, ownerDir),
              LAMBDA name : /\ f[Append(ownerDir, name)].kind = "dir"
                            /\ cutAt(name).found
                            /\ cutAt(name).before = repo)

\* mutant of olderThan: the newest sorts first
newerThan(f, ownerDir, s, i, j) ==
    f[Append(ownerDir, s[i])].mtime > f[Append(ownerDir, s[j])].mtime

\* the less function of the sort: by modification time
olderThan(f, ownerDir, s, i, j) ==
    f[Append(ownerDir, s[i])].mtime < f[Append(ownerDir, s[j])].mtime

RECURSIVE sinkByTime(_, _, _, _)
sinkByTime(f, ownerDir, s, j) ==
    IF j > 1 /\ olderThan(f, ownerDir, s, j, j - 1)
    THEN sinkByTime(f, ownerDir, Swap(s, j, j - 1), j - 1)
    ELSE s

RECURSIVE sortByTimeFrom(_, _, _, _)
\* sort.Slice on at most 12 versions: an insertion sort
sortByTimeFrom(f, ownerDir, s, i) ==
    IF i > Len(s) THEN s
    ELSE sortByTimeFrom(f, ownerDir, sinkByTime(f, ownerDir, s, i), i + 1)

\* versions[:len(versions)-1] after the sort: what purge removes
doomed(f, ownerDir, versions) ==
    LET sorted == sortByTimeFrom(f, ownerDir, versions, 2)
    IN  SubSeq(sorted, 1, Len(sorted) - 1)

RECURSIVE removeEach(_, _, _, _)
removeEach(f, ownerDir, names, t) ==
    IF names = <<>> THEN f
    ELSE removeEach(removeAll(f, Append(ownerDir, Head(names)), t), ownerDir, Tail(names), t)

\* purge(baseDir, owner, repo) at time t: the new tree, the names reported
\* as purged, and the error
purge(f, owner, repo, t) ==
    LET ownerDir == Join(<<>>, <<GhinstDir, owner>>)
        versions == versionsOf(f, ownerDir, repo)
        gone == doomed(f, ownerDir, versions)
    IN  IF ownerDir \notin DOMAIN f \/ f[ownerDir].kind # "dir"
        THEN [fs |-> f, purged |-> <<>>, err |-> "readdir"]
        ELSE IF Len(versions) <= 1
        THEN [fs |-> f, purged |-> <<>>, err |-> "nil"]
        ELSE [fs |-> removeEach(f, ownerDir, gone, t), purged |-> gone, err |-> "nil"]

---------------------------------------------------------------------------
(* extractBinary *)

\* what a downloaded file holds: its format and, for an archive the
\* extraction can read, the entries
Format(bytes) == bytes[1]
Entries(bytes) == bytes[2]

\* the case of the switch of lines 87-105 that assetName takes
extractKind(assetName) ==
    LET lower == ToLower(assetName)
    IN  IF HasSuffix(lower, <<".", "t", "a", "r", ".", "g", "z">>) \/ HasSuffix(lower, <<".", "t", "g", "z">>) THEN "gzip+tar"
        ELSE IF HasSuffix(lower, <<".", "t", "a", "r", ".", "b", "z", "2">>) THEN "bzip2+tar"
        ELSE IF HasSuffix(lower, <<".", "z", "i", "p">>) THEN "zip"
        ELSE "as is"

\* mutant of asIs: the lowercased name is returned
asIsLowered(assetName, f) == Extracted(ToLower(assetName), f, "nil")

\* line 107: the name and the file as they came
asIs(assetName, f) == Extracted(assetName, f, "nil")

\* lines 88-94: gzip.NewReader fails on what is not gzip, else findInTar
\* reads the uncompressed stream
ExtGzipTar ==
    /\ pc = "extractBinary"
    /\ extractKind(extName) = "gzip+tar"
    /\ IF Format(tmpFiles[extFile]) = "gzip"
       THEN /\ tarStream' = Entries(tmpFiles[extFile])
            /\ tarPos' = 0
            /\ pc' = "findInTar"
            /\ UNCHANGED <<stack, extResult>>
       ELSE /\ extResult' = Extracted(<<>>, 0, "gzip: invalid header")
            /\ Return
            /\ UNCHANGED <<tarStream, tarPos>>
    /\ UNCHANGED <<zipFiles, zipIdx, best, tmpFiles, selVars, rootVars, mainVars>>

\* lines 96-97: bzip2.NewReader cannot fail; what is not bzip2 makes the
\* first tr.Next fail
ExtBzip2Tar ==
    /\ pc = "extractBinary"
    /\ extractKind(extName) = "bzip2+tar"
    /\ tarStream' = IF Format(tmpFiles[extFile]) = "bzip2"
                    THEN Entries(tmpFiles[extFile])
                    ELSE <<[Typeflag |-> "corrupt", Mode |-> 0, Name |-> <<>>, Body |-> <<>>]>>
    /\ tarPos' = 0
    /\ pc' = "findInTar"
    /\ UNCHANGED <<stack, extResult, zipFiles, zipIdx, best, tmpFiles, selVars, rootVars, mainVars>>

\* lines 99-104 and 139-142: zip.NewReader fails on what is not a zip file
ExtZip ==
    /\ pc = "extractBinary"
    /\ extractKind(extName) = "zip"
    /\ IF Format(tmpFiles[extFile]) = "zip"
       THEN /\ zipFiles' = Entries(tmpFiles[extFile])
            /\ zipIdx' = 0
            /\ best' = 0
            /\ pc' = "findInZip"
            /\ UNCHANGED <<stack, extResult>>
       ELSE /\ extResult' = Extracted(<<>>, 0, "zip: not a valid zip file")
            /\ Return
            /\ UNCHANGED <<zipFiles, zipIdx, best>>
    /\ UNCHANGED <<tarStream, tarPos, tmpFiles, selVars, rootVars, mainVars>>

\* line 107: any other name
ExtAsIs ==
    /\ pc = "extractBinary"
    /\ extractKind(extName) = "as is"
    /\ extResult' = asIs(extName, extFile)
    /\ Return
    /\ UNCHANGED <<tarStream, tarPos, zipFiles, zipIdx, best, tmpFiles, selVars, rootVars, mainVars>>

---------------------------------------------------------------------------
(* parseTarget *)

RECURSIVE cutFrom(_, _, _)
\* the scan of strings.Cut, before being what was read so far
cutFrom(s, sep, before) ==
    IF s = <<>> THEN [before |-> before, after |-> <<>>, found |-> FALSE]
    ELSE IF Head(s) = sep THEN [before |-> before, after |-> Tail(s), found |-> TRUE]
    ELSE cutFrom(Tail(s), sep, Append(before, Head(s)))

\* strings.Cut(s, sep) for a separator of one character
Cut(s, sep) == cutFrom(s, sep, <<>>)

RECURSIVE SplitAll(_, _)
\* mutant of SplitN2: the string is split at every separator
SplitAll(s, sep) ==
    LET c == Cut(s, sep)
    IN  IF c.found THEN <<c.before>> \o SplitAll(c.after, sep) ELSE <<s>>

\* strings.SplitN(s, sep, 2) for a separator of one character
SplitN2(s, sep) ==
    LET c == Cut(s, sep)
    IN  IF c.found THEN <<c.before, c.after>> ELSE <<s>>

\* the four values parseTarget returns
Parsed(owner, repo, tag, err) == [owner |-> owner, repo |-> repo, tag |-> tag, err |-> err]

\* parseTarget(s), lines 314-321
parseTarget(s) ==
    LET c == Cut(s, "@")
        slug == c.before
        tag == c.after
        parts == SplitN2(slug, "/")
    IN  IF Len(parts) # 2 \/ parts[1] = <<>> \/ parts[2] = <<>>
        THEN Parsed(<<>>, <<>>, <<>>, "invalid target")
        ELSE Parsed(parts[1], parts[2], tag, "nil")

\* parseTarget called on its own
ParseTarget ==
    /\ pc = "parseTarget"
    /\ parsed' = parseTarget(arg)
    /\ Return
    /\ UNCHANGED <<selVars, extVars, rootVars, extName, extFile, respBody, target, exitCode, arg>>

---------------------------------------------------------------------------
(* main, on the way that installs *)

\* what a call of installBinary leaves in the history
RecordInstall(owner, repo, tag, binName, content, failAt, r) ==
    /\ callResult' = [fn |-> "installBinary", args |-> <<owner, repo, tag, binName>>,
                      failAt |-> failAt,
                      err |-> r.err, link |-> r.link, purged |-> <<>>]
    /\ onlyInstalls' = (onlyInstalls /\ r.err = "nil")
    /\ latest' = IF r.err = "nil"
                 THEN (binName :> [owner |-> owner, repo |-> repo, tag |-> tag,
                                   content |-> content]) @@ latest
                 ELSE latest

\* os.Exit(code), or the return of main with code 0
Exit(code) ==
    /\ exitCode' = code
    /\ pc' = "exit"
    /\ stack' = <<>>

\* lines 430-434: parseTarget, exit on its error
MainParse ==
    /\ pc = "main"
    /\ parsed' = parseTarget(arg)
    /\ IF parsed'.err # "nil"
       THEN /\ Exit(1)
            /\ UNCHANGED target
       ELSE /\ pc' = "main.fetch"
            /\ target' = [owner |-> parsed'.owner, repo |-> parsed'.repo, tagName |-> <<>>]
            /\ UNCHANGED <<stack, exitCode>>
    /\ UNCHANGED <<selVars, extVars, rootVars, extName, extFile, respBody, arg>>

\* lines 444-448: fetchRelease fails, or answers with the release: the one of
\* the tag asked for, or without a tag the latest one, v1
MainFetch ==
    /\ pc = "main.fetch"
    /\ \E ok \in BOOLEAN :
          IF ok
          THEN /\ pc' = "selectAsset"
               /\ stack' = <<"main.selected">>
               /\ target' = [target EXCEPT !.tagName = IF parsed.tag = <<>> THEN <<"v", "1">>
                                                       ELSE parsed.tag]
               /\ UNCHANGED exitCode
          ELSE /\ Exit(1)
               /\ UNCHANGED target
    /\ UNCHANGED <<selVars, extVars, rootVars, extName, extFile, respBody, arg, parsed>>

\* mutant of MainSelected: main goes on when selectAsset returned an error
MainSelectedGoesOn ==
    /\ pc = "main.selected"
    /\ pc' = "main.download"
    /\ UNCHANGED <<stack, selVars, extVars, rootVars, mainVars>>

\* lines 450-458: no artifact, exit
MainSelected ==
    /\ pc = "main.selected"
    /\ IF selResult.err # "nil"
       THEN Exit(1)
       ELSE /\ pc' = "main.download"
            /\ UNCHANGED <<stack, exitCode>>
    /\ UNCHANGED <<selVars, extVars, rootVars, extName, extFile, respBody, target, arg, parsed>>

\* lines 463-471 and download: the response body goes to a new temp file,
\* which download removes again when it fails; then extractBinary is called
MainDownload ==
    /\ pc = "main.download"
    /\ \E ok \in BOOLEAN :
          IF ok
          THEN /\ tmpFiles' = tmpFiles @@ (freshTmp :> respBody)
               /\ extFile' = freshTmp
               /\ extName' = selResult.asset.Name
               /\ pc' = "extractBinary"
               /\ stack' = <<"main.extracted">>
               /\ UNCHANGED exitCode
          ELSE /\ Exit(1)
               /\ UNCHANGED <<tmpFiles, extFile, extName>>
    /\ UNCHANGED <<tarStream, tarPos, zipFiles, zipIdx, best, extResult, selVars, rootVars,
                   respBody, target, arg, parsed>>

\* lines 473-483: exit on an extraction error; else installBinary, and exit
\* on its error.  os.Exit runs no deferred call: the temp files are removed
\* only when main returns.
MainInstall ==
    /\ pc = "main.extracted"
    /\ IF extResult.err # "nil"
       THEN /\ Exit(1)
            /\ UNCHANGED <<tmpFiles, rootVars>>
       ELSE \E failAt \in {"none", "Copy"} :
               LET content == tmpFiles[extResult.file]
                   r == installBinary(fs, target.owner, target.repo, target.tagName,
                                      extResult.name, content, clock, failAt)
               IN  /\ fs' = r.fs
                   /\ RecordInstall(target.owner, target.repo, target.tagName,
                                    extResult.name, content, failAt, r)
                   /\ IF r.err = "nil"
                      THEN /\ Exit(0)
                           /\ tmpFiles' = [n \in DOMAIN tmpFiles \ {extResult.file, extFile}
                                             |-> tmpFiles[n]]
                      ELSE /\ Exit(1)
                           /\ UNCHANGED tmpFiles
                   /\ UNCHANGED clock
    /\ UNCHANGED <<tarStream, tarPos, zipFiles, zipIdx, best, extResult, selVars,
                   extName, extFile, respBody, target, arg, parsed>>

---------------------------------------------------------------------------
(* Inputs and specifications of the functions taken on their own *)

\* nothing extracted yet
ExtIdle ==
    /\ tarStream = <<>>
    /\ tarPos = 0
    /\ zipFiles = <<>>
    /\ zipIdx = 0
    /\ best = 0
    /\ extResult = Extracted(<<>>, 0, "pending")
    /\ tmpFiles = <<>>

\* nothing called on the install root yet
RootIdle ==
    /\ fs = <<>>
    /\ clock = 1
    /\ callResult = [fn |-> "none", args |-> <<>>, failAt |-> "none", err |-> "pending", link |-> <<>>,
                     purged |-> <<>>]
    /\ latest = <<>>
    /\ onlyInstalls = TRUE

\* main not started, extractBinary not called
MainIdle ==
    /\ extName = <<>>
    /\ extFile = 0
    /\ respBody = <<>>
    /\ target = [owner |-> <<>>, repo |-> <<>>, tagName |-> <<>>]
    /\ exitCode = -1
    /\ arg = <<>>
    /\ parsed = Parsed(<<>>, <<>>, <<>>, "pending")

\* artifact names a release may carry
AssetNames ==
    { <<"t", "o", "o", "l", "_", "l", "i", "n", "u", "x", "_", "a", "m", "d", "6", "4", ".", "t", "a", "r", ".", "g", "z">>,
      <<"t", "o", "o", "l", "_", "l", "i", "n", "u", "x", "_", "a", "m", "d", "6", "4", ".", "d", "e", "b">>,
      <<"t", "o", "o", "l", "_", "m", "a", "c", "o", "s", "_", "a", "r", "m", "6", "4", ".", "t", "a", "r", ".", "g", "z">>,
      <<"t", "o", "o", "l", "_", "l", "i", "n", "u", "x", "_", "a", "m", "d", "6", "4", ".", "t", "a", "r", ".", "g", "z", ".", "s", "h", "a", "2", "5", "6">>,
      <<"t", "o", "o", "l", "_", "d", "a", "r", "w", "i", "n", "_", "a", "m", "d", "6", "4", ".", "z", "i", "p">>,
      <<"T", "o", "o", "l", "_", "L", "i", "n", "u", "x", "_", "X", "8", "6", "_", "6", "4", ".", "T", "G", "Z">>,
      <<"t", "o", "o", "l", "_", "l", "i", "n", "u", "x", "_", "a", "m", "d", "6", "4", ".", "t", "g", "z">>,
      <<"t", "o", "o", "l", "_", "l", IDot, "n", "u", "x", "_", "a", "m", "d", "6", "4", ".", "z", "i", "p">>,
      <<"t", "o", "o", "l", "_", "l", "i", "n", "u", "x", "_", "a", "m", "d", "6", "4", ".", "t", "a", "r", ".", "x", "z">> }

GoosValues == {"linux", "darwin", "windows", "freebsd"}
GoarchValues == {"amd64", "arm64", "386", "riscv64"}

\* the artifact lists of at most MaxAssets entries; the URL of each is its own
AssetLists ==
    UNION { { [i \in 1..n |-> [Name |-> names[i], BrowserDownloadURL |-> i]] :
              names \in [1..n -> AssetNames] } : n \in 0..MaxAssets }

\* nothing selected yet
SelIdle ==
    /\ assets = <<>>
    /\ goos = "linux"
    /\ goarch = "amd64"
    /\ osPhrases = <<>>
    /\ archPhrases = <<>>
    /\ candidates = <<>>
    /\ selIdx = 0
    /\ selResult = [asset |-> NoAsset, err |-> "pending"]

InitSelect ==
    /\ RootIdle
    /\ MainIdle
    /\ pc = "selectAsset"
    /\ stack = <<>>
    /\ ExtIdle
    /\ assets \in AssetLists
    /\ goos \in GoosValues
    /\ goarch \in GoarchValues
    /\ osPhrases = <<>>
    /\ archPhrases = <<>>
    /\ candidates = <<>>
    /\ selIdx = 0
    /\ selResult = [asset |-> NoAsset, err |-> "pending"]

NextSelect == SelLookup \/ SelFilter \/ SelPick

SpecSelect == InitSelect /\ [][NextSelect]_vars

TarHeader(typeflag, mode, name, body) ==
    [Typeflag |-> typeflag, Mode |-> mode, Name |-> name, Body |-> body]

\* entries a tar stream may hold; the modes are 0755, 0644, 0001, 0777
TarEntries ==
    { TarHeader("TypeReg", 493, <<"b", "i", "n", "/", "t", "o", "o", "l">>, <<1>>),
      TarHeader("TypeReg", 420, <<"R", "E", "A", "D", "M", "E", ".", "m", "d">>, <<2>>),
      TarHeader("TypeReg", 1, <<"p", "k", "g", "/", "b", "i", "n", "/", "h", "e", "l", "p", "e", "r">>, <<3>>),
      TarHeader("TypeDir", 493, <<"b", "i", "n", "/">>, <<>>),
      TarHeader("TypeSymlink", 511, <<"t", "o", "o", "l", "-", "l", "i", "n", "k">>, <<>>),
      TarHeader("corrupt", 0, <<>>, <<>>) }

TarStreams == UNION { [1..n -> TarEntries] : n \in 0..MaxTarEntries }

InitTar ==
    /\ RootIdle
    /\ MainIdle
    /\ pc = "findInTar"
    /\ stack = <<>>
    /\ SelIdle
    /\ tarStream \in TarStreams
    /\ tarPos = 0
    /\ zipFiles = <<>>
    /\ zipIdx = 0
    /\ best = 0
    /\ extResult = Extracted(<<>>, 0, "pending")
    /\ tmpFiles = <<>>

NextTar == TarEOF \/ TarBadHeader \/ TarSkip \/ TarTake

SpecTar == InitTar /\ [][NextTar]_vars

ZipFile(name, mode, isDir, body, readable) ==
    [Name |-> name, Mode |-> mode, IsDir |-> isDir, Body |-> body, Readable |-> readable]

\* entries a zip listing may hold; the modes are 0755, 0644, 0010
ZipEntries ==
    { ZipFile(<<"d", "i", "s", "t", "/", "t", "o", "o", "l", ".", "e", "x", "e">>, 493, FALSE, <<1>>, TRUE),
      ZipFile(<<"d", "i", "s", "t", "/", "L", "I", "C", "E", "N", "S", "E">>, 420, FALSE, <<2>>, TRUE),
      ZipFile(<<"m", "y", "t", "o", "o", "l">>, 420, FALSE, <<3>>, TRUE),
      ZipFile(<<"n", "o", "t", "e", "s", ".", "t", "x", "t">>, 420, FALSE, <<4>>, TRUE),
      ZipFile(<<"r", "u", "n", ".", "s", "h">>, 8, FALSE, <<5>>, TRUE),
      ZipFile(<<"b", "i", "n", "/">>, 493, TRUE, <<>>, TRUE),
      ZipFile(<<"p", "a", "c", "k", "e", "d">>, 420, FALSE, <<6>>, FALSE) }

ZipListings == UNION { [1..n -> ZipEntries] : n \in 0..MaxZipEntries }

InitZip ==
    /\ RootIdle
    /\ MainIdle
    /\ pc = "findInZip"
    /\ stack = <<>>
    /\ SelIdle
    /\ tarStream = <<>>
    /\ tarPos = 0
    /\ zipFiles \in ZipListings
    /\ zipIdx = 0
    /\ best = 0
    /\ extResult = Extracted(<<>>, 0, "pending")
    /\ tmpFiles = <<>>

NextZip == ZipVisit \/ ZipLoopEnd \/ ZipOpen

SpecZip == InitZip /\ [][NextZip]_vars

---------------------------------------------------------------------------
(* installBinary and purge called on one install root *)

\* time passes between two calls
Tick ==
    /\ clock < MaxClock
    /\ clock' = clock + 1
    /\ UNCHANGED <<pc, stack, selVars, extVars, mainVars, fs, callResult, latest, onlyInstalls>>

\* one call of installBinary, its arguments taken from the given sets, the
\* operating system failing at one of the given steps
CallInstall(owners, repos, tags, binNames, payloads, failures) ==
    /\ \E owner \in owners, repo \in repos, tag \in tags, binName \in binNames,
          content \in payloads, failAt \in failures :
          LET r == installBinary(fs, owner, repo, tag, binName, content, clock, failAt)
          IN  /\ fs' = r.fs
              /\ RecordInstall(owner, repo, tag, binName, content, failAt, r)
    /\ UNCHANGED <<pc, stack, selVars, extVars, mainVars, clock>>

\* one call of purge
CallPurge(owners, repos) ==
    /\ \E owner \in owners, repo \in repos :
          LET r == purge(fs, owner, repo, clock)
          IN  /\ fs' = r.fs
              /\ callResult' = [fn |-> "purge", args |-> <<owner, repo>>, failAt |-> "none", err |-> r.err,
                                link |-> <<>>, purged |-> r.purged]
    /\ onlyInstalls' = FALSE
    /\ UNCHANGED <<pc, stack, selVars, extVars, mainVars, clock, latest>>

InitRoot ==
    /\ pc = "done"
    /\ stack = <<>>
    /\ SelIdle
    /\ ExtIdle
    /\ RootIdle
    /\ MainIdle

\* three versions of one package and one version of another installed and
\* purged as time passes; an install may fail while copying
NextPurge ==
    \/ Tick
    \/ CallInstall({ <<"o">> }, { <<"r">> }, { <<"v", "1">>, <<"v", "2">>, <<"v", "3">> }, { <<"t", "o", "o", "l">> }, { <<1>> },
                   {"none", "Copy"})
    \/ CallInstall({ <<"o">> }, { <<"r", "-", "c", "l", "i">> }, { <<"v", "1">> }, { <<"t", "o", "o", "l">> }, { <<1>> }, {"none"})
    \/ CallPurge({ <<"o">> }, { <<"r">>, <<"r", "-", "c", "l", "i">> })

SpecPurge == InitRoot /\ [][NextPurge]_vars

\* installs that all succeed: two versions of one package, two file names
\* and two payloads
NextInstall ==
    CallInstall({ <<"o">> }, { <<"r">> }, { <<"v", "1">>, <<"v", "2">> }, { <<"t", "o", "o", "l">>, <<"a", "l", "t">> }, { <<1>>, <<2>> }, {"none"})

SpecInstall == InitRoot /\ [][NextInstall]_vars

\* installs that may fail at any step, into a version directory and into one
\* whose tag has a slash
NextRollback ==
    CallInstall({ <<"o">> }, { <<"r">> }, { <<"v", "1">>, <<"x", "/", "v", "1">> }, { <<"t", "o", "o", "l">>, <<"a", "l", "t">> }, { <<1>> },
                InstallFailures)

SpecRollback == InitRoot /\ [][NextRollback]_vars

\* an install root in which somebody left a plain file named r@old in the
\* directory of owner o
StrayFileTree ==
    openTrunc(mkdirAll(<<>>, <<GhinstDir, <<"o">>>>, 1).fs, <<GhinstDir, <<"o">>, <<"r", "@", "o", "l", "d">>>>, 1).fs

InitFrame ==
    /\ pc = "done"
    /\ stack = <<>>
    /\ SelIdle
    /\ ExtIdle
    /\ MainIdle
    /\ fs \in {<<>>, StrayFileTree}
    /\ clock = 1
    /\ callResult = [fn |-> "none", args |-> <<>>, failAt |-> "none", err |-> "pending", link |-> <<>>,
                     purged |-> <<>>]
    /\ latest = <<>>
    /\ onlyInstalls = TRUE

\* two versions of o/r, one of o/r-cli and one of p/r installed, and purges
\* of each package, as time passes
NextFrame ==
    \/ Tick
    \/ CallInstall({ <<"o">> }, { <<"r">> }, { <<"v", "1">>, <<"v", "2">> }, { <<"t", "o", "o", "l">> }, { <<1>> }, {"none"})
    \/ CallInstall({ <<"o">> }, { <<"r", "-", "c", "l", "i">> }, { <<"v", "1">> }, { <<"t", "o", "o", "l">> }, { <<1>> }, {"none"})
    \/ CallInstall({ <<"p">> }, { <<"r">> }, { <<"v", "1">> }, { <<"t", "o", "o", "l">> }, { <<1>> }, {"none"})
    \/ CallPurge({ <<"o">>, <<"p">> }, { <<"r">>, <<"r", "-", "c", "l", "i">> })

SpecFrame == InitFrame /\ [][NextFrame]_vars

\* one call of installBinary that succeeds, after which time passes: the
\* next call is later
InstallThenTick(owners, repos, tags, binNames, payloads) ==
    /\ clock <= MaxClock
    /\ \E owner \in owners, repo \in repos, tag \in tags, binName \in binNames,
          content \in payloads :
          LET r == installBinary(fs, owner, repo, tag, binName, content, clock, "none")
          IN  /\ r.err = "nil"
              /\ fs' = r.fs
              /\ RecordInstall(owner, repo, tag, binName, content, "none", r)
    /\ clock' = clock + 1
    /\ UNCHANGED <<pc, stack, selVars, extVars, mainVars>>

\* installs of o/r, with a plain tag and with one that has a slash, and of
\* o/r-cli, each at a later time than the one before, and purges of both
NextLifecycle ==
    \/ InstallThenTick({ <<"o">> }, { <<"r">> }, { <<"v", "1">>, <<"x", "/", "v", "1">> }, { <<"t", "o", "o", "l">> }, { <<1>> })
    \/ InstallThenTick({ <<"o">> }, { <<"r", "-", "c", "l", "i">> }, { <<"v", "1">> }, { <<"a", "l", "t">> }, { <<1>> })
    \/ CallPurge({ <<"o">> }, { <<"r">>, <<"r", "-", "c", "l", "i">> })

SpecLifecycle == InitRoot /\ [][NextLifecycle]_vars

---------------------------------------------------------------------------
(* extractBinary called on its own, and main run from its start *)

\* artifact names extractBinary may be called with
ExtNames ==
    { <<"t", "o", "o", "l">>, <<"t", "o", "o", "l", ".", "e", "x", "e">>, <<"t", "o", "o", "l", ".", "t", "a", "r", ".", "x", "z">>, <<"T", "o", "o", "l", ".", "T", "A", "R", ".", "X", "Z">>, <<"t", "o", "o", "l", ".", "T", "G", "Z">>,
      <<"t", "o", "o", "l", ".", "t", "a", "r", ".", "g", "z">>, <<"t", "o", "o", "l", ".", "t", "a", "r", ".", "b", "z", "2">>, <<"T", "o", "o", "l", ".", "Z", "i", "p">>, <<"t", "o", "o", "l", ".", "t", "a", "r", ".", "g", "z", ".", "s", "h", "a", "2", "5", "6">> }

\* what the download may hold: archives with and without an executable, a
\* damaged one, an xz archive and a bare executable
ExtPayloads ==
    { <<"gzip", <<TarHeader("TypeReg", 493, <<"b", "i", "n", "/", "t", "o", "o", "l">>, <<1>>)>>>>,
      <<"gzip", <<TarHeader("TypeReg", 420, <<"R", "E", "A", "D", "M", "E", ".", "m", "d">>, <<2>>)>>>>,
      <<"gzip", <<TarHeader("corrupt", 0, <<>>, <<>>)>>>>,
      <<"bzip2", <<TarHeader("TypeReg", 420, <<"R", "E", "A", "D", "M", "E", ".", "m", "d">>, <<2>>),
                   TarHeader("TypeReg", 493, <<"b", "i", "n", "/", "t", "o", "o", "l">>, <<1>>)>>>>,
      <<"zip", <<ZipFile(<<"b", "i", "n", "/", "t", "o", "o", "l">>, 493, FALSE, <<1>>, TRUE)>>>>,
      <<"zip", <<ZipFile(<<"R", "E", "A", "D", "M", "E", ".", "m", "d">>, 420, FALSE, <<2>>, TRUE)>>>>,
      <<"xz", <<7>>>>,
      <<"elf", <<9>>>> }

\* the artifacts of the release main fetches
MainAssetNames ==
    { <<"t", "o", "o", "l", "_", "l", "i", "n", "u", "x", "_", "a", "m", "d", "6", "4", ".", "t", "a", "r", ".", "x", "z">>, <<"T", "o", "o", "l", "_", "L", "i", "n", "u", "x", "_", "x", "8", "6", "_", "6", "4", ".", "T", "A", "R", ".", "X", "Z">>,
      <<"t", "o", "o", "l", "_", "l", "i", "n", "u", "x", "_", "a", "m", "d", "6", "4", ".", "t", "g", "z">>, <<"t", "o", "o", "l", "_", "l", "i", "n", "u", "x", "_", "a", "r", "m", "6", "4", ".", "t", "a", "r", ".", "x", "z">> }

MainAssetLists ==
    UNION { { [i \in 1..n |-> [Name |-> names[i], BrowserDownloadURL |-> i]] :
              names \in [1..n -> MainAssetNames] } : n \in 0..2 }

\* extractBinary called with a file that holds the payload
InitExtractOnly ==
    /\ pc = "extractBinary"
    /\ stack = <<>>
    /\ SelIdle
    /\ tarStream = <<>>
    /\ tarPos = 0
    /\ zipFiles = <<>>
    /\ zipIdx = 0
    /\ best = 0
    /\ extResult = Extracted(<<>>, 0, "pending")
    /\ respBody \in ExtPayloads
    /\ tmpFiles = (1 :> respBody)
    /\ RootIdle
    /\ extName \in ExtNames
    /\ extFile = 1
    /\ target = [owner |-> <<>>, repo |-> <<>>, tagName |-> <<>>]
    /\ exitCode = -1
    /\ arg = <<>>
    /\ parsed = Parsed(<<>>, <<>>, <<>>, "pending")

\* what main may be started with
MainArgs == { <<"o", "/", "r">>, <<"o", "/", "r", "@", "v", "2">>, <<"o">>, <<"o", "/", "@", "v", "1">> }

\* main started on a linux machine
InitMain ==
    /\ pc = "main"
    /\ stack = <<>>
    /\ assets \in MainAssetLists
    /\ goos = "linux"
    /\ goarch \in {"amd64", "riscv64"}
    /\ osPhrases = <<>>
    /\ archPhrases = <<>>
    /\ candidates = <<>>
    /\ selIdx = 0
    /\ selResult = [asset |-> NoAsset, err |-> "pending"]
    /\ ExtIdle
    /\ RootIdle
    /\ extName = <<>>
    /\ extFile = 0
    /\ respBody \in ExtPayloads
    /\ target = [owner |-> <<>>, repo |-> <<>>, tagName |-> <<>>]
    /\ exitCode = -1
    /\ arg \in MainArgs
    /\ parsed = Parsed(<<>>, <<>>, <<>>, "pending")

InitExtract == InitExtractOnly \/ InitMain

NextExtract ==
    \/ MainParse
    \/ MainFetch
    \/ SelLookup
    \/ SelFilter
    \/ SelPick
    \/ MainSelected
    \/ MainDownload
    \/ ExtGzipTar
    \/ ExtBzip2Tar
    \/ ExtZip
    \/ ExtAsIs
    \/ TarEOF
    \/ TarBadHeader
    \/ TarSkip
    \/ TarTake
    \/ ZipVisit
    \/ ZipLoopEnd
    \/ ZipOpen
    \/ MainInstall

SpecExtract == InitExtract /\ [][NextExtract]_vars

---------------------------------------------------------------------------
(* parseTarget called on its own *)

\* the characters of the arguments: a letter, and the two separators
TargetChars == {"o", "/", "@"}

\* the arguments of at most MaxTargetLen characters
TargetArgs == UNION { [1..n -> TargetChars] : n \in 0..MaxTargetLen }

InitParse ==
    /\ pc = "parseTarget"
    /\ stack = <<>>
    /\ SelIdle
    /\ ExtIdle
    /\ RootIdle
    /\ extName = <<>>
    /\ extFile = 0
    /\ respBody = <<>>
    /\ target = [owner |-> <<>>, repo |-> <<>>, tagName |-> <<>>]
    /\ exitCode = -1
    /\ arg \in TargetArgs
    /\ parsed = Parsed(<<>>, <<>>, <<>>, "pending")

NextParse == ParseTarget

SpecParse == InitParse /\ [][NextParse]_vars

---------------------------------------------------------------------------
(* Properties of selectAsset *)

selReturned == selResult.err # "pending"

PlatformSupported == goos \in DOMAIN osAliases /\ goarch \in DOMAIN archAliases

\* the five archive extensions of the filter
ClaimedExts == { <<".", "t", "a", "r", ".", "g", "z">>,
                 <<".", "t", "g", "z">>,
                 <<".", "t", "a", "r", ".", "b", "z", "2">>,
                 <<".", "t", "a", "r", ".", "x", "z">>,
                 <<".", "z", "i", "p">> }

\* the lowercased name holds a phrase of os, a phrase of arch, and ends with an
\* archive extension
MeetsAllThree(name, os, arch) ==
    LET lower == ToLower(name)
    IN  /\ \E k \in 1..Len(osAliases[os]) : Contains(lower, osAliases[os][k])
        /\ \E k \in 1..Len(archAliases[arch]) : Contains(lower, archAliases[arch][k])
        /\ \E e \in ClaimedExts : HasSuffix(lower, e)

\* C1: whenever selectAsset succeeds, the platform is in the alias tables and
\* the returned artifact is an element of the input list whose lowercased name
\* contains a phrase of the OS, a phrase of the architecture, and ends with
\* one of .tar.gz, .tgz, .tar.bz2, .tar.xz, .zip.
SelectReturnsPlatformArchive ==
    (selReturned /\ selResult.err = "nil") =>
        /\ PlatformSupported
        /\ \E i \in 1..Len(assets) : assets[i] = selResult.asset
        /\ MeetsAllThree(selResult.asset.Name, goos, goarch)

\* a success on a list of several artifacts, one of them rejected, the chosen
\* name holding upper-case letters
SelectReturnsPlatformArchiveWitness ==
    /\ selResult.err = "nil"
    /\ ToLower(selResult.asset.Name) # selResult.asset.Name
    /\ \E i \in 1..Len(assets) :
          PlatformSupported /\ ~MeetsAllThree(assets[i].Name, goos, goarch)

\* C2: whenever selectAsset succeeds, no artifact of the list that passes the
\* three tests has a strictly shorter original name (in bytes) than the
\* returned one; a companion name.sha256 is never returned when the primary
\* archive name is a candidate of the list.
SelectReturnsShortest ==
    (selReturned /\ selResult.err = "nil") =>
        /\ \A i \in 1..Len(assets) :
              MeetsAllThree(assets[i].Name, goos, goarch) =>
                  ByteLen(assets[i].Name) >= ByteLen(selResult.asset.Name)
        /\ \A i \in 1..Len(assets) :
              MeetsAllThree(assets[i].Name, goos, goarch) =>
                  selResult.asset.Name # assets[i].Name \o <<".", "s", "h", "a", "2", "5", "6">>

\* a success where a longer candidate comes before the chosen archive in the
\* list, and the list also holds that longer candidate's .sha256 companion
SelectReturnsShortestWitness ==
    /\ selResult.err = "nil"
    /\ \E i, j, k \in 1..Len(assets) :
          /\ i < k
          /\ assets[k] = selResult.asset
          /\ MeetsAllThree(assets[i].Name, goos, goarch)
          /\ ByteLen(assets[i].Name) > ByteLen(assets[k].Name)
          /\ assets[j].Name = assets[i].Name \o <<".", "s", "h", "a", "2", "5", "6">>

\* C3: selectAsset fails with the no-asset error, returning the zero Asset,
\* exactly when the platform is supported and no artifact of the list passes
\* all three tests.
SelectNoAssetIff ==
    selReturned =>
        /\ (selResult.err = "no asset found") <=>
               (PlatformSupported /\
                \A i \in 1..Len(assets) : ~MeetsAllThree(assets[i].Name, goos, goarch))
        /\ (selResult.err = "no asset found") => selResult.asset = NoAsset

\* the no-asset error on a list whose only platform matches are a .deb and a
\* .tar.gz.sha256
SelectNoAssetWitness ==
    /\ selResult.err = "no asset found"
    /\ Len(assets) >= 2
    /\ \E i, j \in 1..Len(assets) :
          /\ assets[i].Name = <<"t", "o", "o", "l", "_", "l", "i", "n", "u", "x", "_", "a", "m", "d", "6", "4", ".", "d", "e", "b">>
          /\ assets[j].Name = <<"t", "o", "o", "l", "_", "l", "i", "n", "u", "x", "_", "a", "m", "d", "6", "4", ".", "t", "a", "r", ".", "g", "z", ".", "s", "h", "a", "2", "5", "6">>

\* C4: for a platform whose OS or architecture is no key of the alias tables,
\* selectAsset fails with the unsupported-platform error whatever the list
\* holds, and the filter loop never examines an artifact.
SelectUnsupportedPlatform ==
    ~PlatformSupported =>
        /\ pc # "selFilter"
        /\ selIdx = 0
        /\ candidates = <<>>
        /\ selReturned =>
              /\ selResult.asset = NoAsset
              /\ selResult.err = IF goos \notin DOMAIN osAliases
                                 THEN "unsupported OS"
                                 ELSE "unsupported architecture"

\* the unsupported-architecture error on a list holding an archive named for
\* the requested OS
SelectUnsupportedPlatformWitness ==
    /\ selReturned
    /\ goos = "linux"
    /\ goarch = "riscv64"
    /\ \E i \in 1..Len(assets) : assets[i].Name = <<"t", "o", "o", "l", "_", "l", "i", "n", "u", "x", "_", "a", "m", "d", "6", "4", ".", "t", "a", "r", ".", "g", "z">>

---------------------------------------------------------------------------
(* Properties of findInTar and findInZip *)

extReturned == extResult.err # "pending"

\* an execute permission bit (owner 0100, group 0010, other 0001) is set
AnyExecBit(mode) == \E b \in {64, 8, 1} : (mode \div b) % 2 = 1

\* what follows the last slash of a path that does not end in one
LastElement(path) ==
    LET n == CHOOSE k \in 0..Len(path) :
                 /\ \A i \in (k + 1)..Len(path) : path[i] # "/"
                 /\ k > 0 => path[k] = "/"
    IN  SubSeq(path, n + 1, Len(path))

\* the content of the temp file the extraction returned
ExtractedContent == tmpFiles[extResult.file]

\* positions of the tar entries that are regular files with an execute bit
TarExecutables ==
    {i \in 1..Len(tarStream) :
        tarStream[i].Typeflag = "TypeReg" /\ AnyExecBit(tarStream[i].Mode)}

TarUnreadable == {i \in 1..Len(tarStream) : tarStream[i].Typeflag = "corrupt"}

Least(S) == CHOOSE i \in S : \A j \in S : i <= j

\* C5: findInTar returns the base name and the exact content of the first
\* entry in stream order that is a regular file with an execute bit, whatever
\* directories, symlinks and non-executable files come before it; it fails
\* with the no-executable error exactly when the stream ends with no such
\* entry.
TarFirstExecutable ==
    extReturned =>
        /\ extResult.err = "nil" =>
              /\ TarExecutables # {}
              /\ extResult.name = LastElement(tarStream[Least(TarExecutables)].Name)
              /\ extResult.file \in DOMAIN tmpFiles
              /\ ExtractedContent = tarStream[Least(TarExecutables)].Body
        /\ (extResult.err = "no executable found in archive") <=>
              (TarExecutables = {} /\ TarUnreadable = {})
        /\ (TarExecutables # {} /\
            \A i \in TarUnreadable : i > Least(TarExecutables)) =>
              extResult.err \in {"nil", "temp file error"}

\* the executable is the third entry, after a directory that has execute bits
\* and a file or symlink; its name has directory components
TarFirstExecutableWitness ==
    /\ extResult.err = "nil"
    /\ tarPos = 3
    /\ tarStream[1].Typeflag = "TypeDir"
    /\ AnyExecBit(tarStream[1].Mode)
    /\ tarStream[2].Typeflag # "TypeDir"
    /\ extResult.name = <<"h", "e", "l", "p", "e", "r">>
    /\ ExtractedContent = <<3>>

\* positions of the zip entries that are no directories
ZipPlainFiles == {i \in 1..Len(zipFiles) : ~zipFiles[i].IsDir}

ZipExecutables == {i \in ZipPlainFiles : AnyExecBit(zipFiles[i].Mode)}

\* no dot in the base name
ZipExtensionless == {i \in ZipPlainFiles : ~Contains(LastElement(zipFiles[i].Name), <<".">>)}

\* findInZip succeeded with the entry at position i
ZipReturned(i) ==
    /\ extResult.name = LastElement(zipFiles[i].Name)
    /\ extResult.file \in DOMAIN tmpFiles
    /\ ExtractedContent = zipFiles[i].Body

\* C6: if a non-directory entry of the zip has an execute bit, the first such
\* entry in listing order is the one chosen and returned, also when
\* extensionless non-executable entries come before it.
ZipExecutableFirst ==
    ZipExecutables # {} =>
        /\ pc = "zipOpen" => best = Least(ZipExecutables)
        /\ extReturned =>
              /\ extResult.err # "no executable found in archive"
              /\ extResult.err = "nil" => ZipReturned(Least(ZipExecutables))

\* an extensionless non-executable entry is first in the listing, the
\* executable returned is third
ZipExecutableFirstWitness ==
    /\ extResult.err = "nil"
    /\ best = 3
    /\ 1 \in ZipExtensionless
    /\ ZipExecutables = {3}
    /\ extResult.name = <<"r", "u", "n", ".", "s", "h">>

\* C7: with no execute bit on any non-directory entry, the first entry in
\* listing order whose base name has no extension is chosen and returned; if
\* every non-directory entry has an extension findInZip fails with the
\* no-executable error.
ZipFallbackFirst ==
    ZipExecutables = {} =>
        /\ pc = "zipOpen" =>
              best = IF ZipExtensionless = {} THEN 0 ELSE Least(ZipExtensionless)
        /\ extReturned =>
              /\ (extResult.err = "no executable found in archive") <=> ZipExtensionless = {}
              /\ extResult.err = "nil" => ZipReturned(Least(ZipExtensionless))

\* two extensionless entries after one with an extension: the earlier of the
\* two is returned
ZipFallbackFirstWitness ==
    /\ extResult.err = "nil"
    /\ ZipExecutables = {}
    /\ ZipExtensionless = {2, 3}
    /\ zipFiles[2] # zipFiles[3]
    /\ best = 2
    /\ ExtractedContent = zipFiles[2].Body


---------------------------------------------------------------------------
(* Properties of purge and installBinary *)

\* the version directories of owner/repo in the tree f: the directories of
\* the owner's directory whose name starts with repo@
VersionDirs(f, owner, repo) ==
    { p \in DOMAIN f : /\ Len(p) = 3
                       /\ Parent(p) = <<GhinstDir, owner>>
                       /\ f[p].kind = "dir"
                       /\ IsPrefix(repo \o At, p[3]) }

DistinctTimes(f, dirs) == \A p, q \in dirs : p # q => f[p].mtime # f[q].mtime

Newest(f, dirs) == CHOOSE p \in dirs : \A q \in dirs : f[q].mtime <= f[p].mtime

\* what purge(owner, repo) has to leave of the tree before, given the tree after
PurgeOutcome(before, after, owner, repo, err) ==
    LET had == VersionDirs(before, owner, repo)
        has == VersionDirs(after, owner, repo)
    IN  /\ (Cardinality(had) >= 2 /\ DistinctTimes(before, had)) =>
               /\ err = "nil"
               /\ has = {Newest(before, had)}
               /\ \A p \in DOMAIN before :
                      IsPrefix(Newest(before, had), p) => p \in DOMAIN after /\ after[p] = before[p]
        /\ Cardinality(had) = 1 => (err = "nil" /\ after = before)
        /\ had # {} => has # {}

\* C9: a call purge(root, owner, repo) that finds two or more version
\* directories of the package with distinct modification times removes all
\* of them but the one modified last, which it leaves as it was; one that
\* finds exactly one removes nothing and returns no error; and no call
\* removes every version directory of a package that had one.
PurgeKeepsNewest ==
    [][ callResult'.fn = "purge" =>
            PurgeOutcome(fs, fs', callResult'.args[1], callResult'.args[2], callResult'.err) ]_vars

\* purge has just removed r@v3 and r@v2, in that order, and kept r@v1: three
\* versions stood there, and as the sort is stable and the directory lists
\* v1, v2, v3, the times were v3 < v2 < v1: distinct, the newest not the last
\* listed
PurgeKeepsNewestWitness ==
    /\ callResult.fn = "purge"
    /\ callResult.err = "nil"
    /\ callResult.purged = << <<"r", "@", "v", "3">>, <<"r", "@", "v", "2">> >>
    /\ VersionDirs(fs, <<"o">>, <<"r">>) = { <<GhinstDir, <<"o">>, <<"r", "@", "v", "1">>>> }

\* C10: as long as every call on the install root was an installBinary that
\* returned no error, for every file name installed bin/<name> is a symlink
\* whose target is the path of the file of that name in the version directory
\* of the last install of that name, and that file holds the payload that
\* install wrote.
LinkFollowsLatestInstall ==
    onlyInstalls =>
        \A binName \in DOMAIN latest :
            LET last == latest[binName]
                binPath == <<GhinstDir, last.owner, last.repo \o At \o last.tag, binName>>
                linkPath == <<BinDir, binName>>
            IN  /\ linkPath \in DOMAIN fs
                /\ fs[linkPath].kind = "symlink"
                /\ fs[linkPath].target = binPath
                /\ binPath \in DOMAIN fs
                /\ fs[binPath].kind = "file"
                /\ fs[binPath].content = last.content

\* tool was installed in v1 and then in v2, alt in v2 and then in v1: both
\* links have been replaced, and the old files are still in place
LinkFollowsLatestInstallWitness ==
    /\ onlyInstalls
    /\ DOMAIN latest = { <<"t", "o", "o", "l">>, <<"a", "l", "t">> }
    /\ latest[<<"t", "o", "o", "l">>].tag = <<"v", "2">>
    /\ latest[<<"a", "l", "t">>].tag = <<"v", "1">>
    /\ <<GhinstDir, <<"o">>, <<"r", "@", "v", "1">>, <<"t", "o", "o", "l">>>> \in DOMAIN fs
    /\ <<GhinstDir, <<"o">>, <<"r", "@", "v", "2">>, <<"a", "l", "t">>>> \in DOMAIN fs
    /\ fs[<<BinDir, <<"t", "o", "o", "l">>>>].target = <<GhinstDir, <<"o">>, <<"r", "@", "v", "2">>, <<"t", "o", "o", "l">>>>
    /\ fs[<<BinDir, <<"a", "l", "t">>>>].target = <<GhinstDir, <<"o">>, <<"r", "@", "v", "1">>, <<"a", "l", "t">>>>

---------------------------------------------------------------------------
(* Properties of extractBinary *)

\* the suffixes extractBinary has a case for
ExtractedSuffixes == { <<".", "t", "a", "r", ".", "g", "z">>, <<".", "t", "g", "z">>, <<".", "t", "a", "r", ".", "b", "z", "2">>, <<".", "z", "i", "p">> }

NoExtractedSuffix(name) == \A sfx \in ExtractedSuffixes : ~HasSuffix(ToLower(name), sfx)

\* extractBinary has returned and nothing was done with its result yet
extractReturned == pc \in {"done", "main.extracted"} /\ extReturned

\* where main installs the file called name
InstalledAt(name) == <<GhinstDir, target.owner, target.repo \o At \o target.tagName, name>>

\* C8: when extractBinary returns for an artifact name whose lowercased form
\* ends in none of .tar.gz, .tgz, .tar.bz2, .zip, it returns no error, the
\* name as given and the very file it was given, which holds the downloaded
\* bytes; and when main ends with success for a chosen artifact whose
\* lowercased name ends in .tar.xz, the version directory holds a file of the
\* artifact's name with the downloaded bytes, and bin/<that name> links to it.
RawFallsThrough ==
    /\ (extractReturned /\ NoExtractedSuffix(extName)) =>
           /\ extResult.err = "nil"
           /\ extResult.name = extName
           /\ extResult.file = extFile
           /\ extFile \in DOMAIN tmpFiles
           /\ tmpFiles[extFile] = respBody
    /\ (exitCode = 0 /\ HasSuffix(ToLower(selResult.asset.Name), <<".", "t", "a", "r", ".", "x", "z">>)) =>
           LET name == selResult.asset.Name
           IN  /\ InstalledAt(name) \in DOMAIN fs
               /\ fs[InstalledAt(name)].kind = "file"
               /\ fs[InstalledAt(name)].content = respBody
               /\ <<BinDir, name>> \in DOMAIN fs
               /\ fs[<<BinDir, name>>].kind = "symlink"
               /\ fs[<<BinDir, name>>].target = InstalledAt(name)

\* main has ended with success after selectAsset chose Tool_Linux_x86_64.TAR.XZ
\* and the download held an xz archive
RawFallsThroughWitness ==
    /\ exitCode = 0
    /\ selResult.asset.Name = <<"T", "o", "o", "l", "_", "L", "i", "n", "u", "x", "_", "x", "8", "6", "_", "6", "4", ".", "T", "A", "R", ".", "X", "Z">>
    /\ extResult.name = <<"T", "o", "o", "l", "_", "L", "i", "n", "u", "x", "_", "x", "8", "6", "_", "6", "4", ".", "T", "A", "R", ".", "X", "Z">>
    /\ Format(respBody) = "xz"
    /\ InstalledAt(<<"T", "o", "o", "l", "_", "L", "i", "n", "u", "x", "_", "x", "8", "6", "_", "6", "4", ".", "T", "A", "R", ".", "X", "Z">>) \in DOMAIN fs

---------------------------------------------------------------------------
(* Properties of a failing installBinary *)

\* what is at or below the directory dir in the tree f
Below(f, dir) == {p \in DOMAIN f : IsPrefix(dir, p)}

\* the steps installBinary takes once the version directory is there, and
\* whose failure it returns
StepsAfterMkdir == {"OpenFile", "Copy", "MkdirAllBin", "Symlink"}

\* C11: a call of installBinary in which opening or writing the payload
\* file, creating the bin directory or creating the symlink fails returns an
\* error, and so does every call that fails after the version directory was
\* made; when such a call returns, nothing is at or below the version
\* directory of its (owner, repo, tag).
FailedInstallRollsBack ==
    [][ callResult'.fn = "installBinary" =>
            LET a == callResult'.args
                installDir == installDirOf(a[1], a[2], a[3])
            IN  /\ callResult'.failAt \in StepsAfterMkdir => callResult'.err # "nil"
                /\ callResult'.err \notin {"nil", "mkdir installDir"} =>
                       Below(fs', installDir) = {} ]_vars

\* the symlink step of an install into r@v1 has failed: the call returned the
\* error and r@v1 is gone, while bin and the version r@x/v1 installed before
\* are there
FailedInstallRollsBackWitness ==
    /\ callResult.fn = "installBinary"
    /\ callResult.failAt = "Symlink"
    /\ callResult.err = "symlink"
    /\ callResult.args[3] = <<"v", "1">>
    /\ Below(fs, <<GhinstDir, <<"o">>, <<"r", "@", "v", "1">>>>) = {}
    /\ <<BinDir>> \in DOMAIN fs
    /\ <<GhinstDir, <<"o">>, <<"r", "@", "x">>, <<"v", "1">>, <<"t", "o", "o", "l">>>> \in DOMAIN fs

---------------------------------------------------------------------------
(* Properties of a run of main *)

\* C12: when main has exited, with whatever code, no temp file made for the
\* download or for the extracted payload is left.
NoTempFileAfterExit == pc = "exit" => DOMAIN tmpFiles = {}

\* main was started (and not extractBinary called on its own)
mainStarted == arg # <<>>

\* what each stage of main has come to: "pending" before it has run, "nil"
\* when it succeeded, an error otherwise
parseStage == parsed.err
lookupStage == IF target.tagName # <<>> THEN "nil"
               ELSE IF pc = "exit" /\ parsed.err = "nil" THEN "lookup failed"
               ELSE "pending"
selectStage == selResult.err
downloadStage == IF extFile # 0 THEN "nil"
                 ELSE IF pc = "exit" /\ selResult.err = "nil" THEN "download failed"
                 ELSE "pending"
extractStage == extResult.err
installStage == IF callResult.fn = "none" THEN "pending" ELSE callResult.err

stagesInOrder ==
    <<parseStage, lookupStage, selectStage, downloadStage, extractStage, installStage>>

\* C13: in a run of main a stage has run only if every stage before it has
\* succeeded, in the order parse, lookup, selection, download, extraction,
\* install; the install root is touched only if selection, download and
\* extraction succeeded; and main exits with 0 when all six succeeded and with
\* 1 when one failed.
StagesRunInOrder ==
    mainStarted =>
        /\ \A i, j \in 1..6 : (i < j /\ stagesInOrder[j] # "pending") => stagesInOrder[i] = "nil"
        /\ fs # <<>> => (selectStage = "nil" /\ downloadStage = "nil" /\ extractStage = "nil")
        /\ pc = "exit" =>
               /\ exitCode \in {0, 1}
               /\ exitCode = 0 <=> \A i \in 1..6 : stagesInOrder[i] = "nil"
               /\ exitCode = 1 <=> \E i \in 1..6 : stagesInOrder[i] \notin {"nil", "pending"}

\* main has exited with 1 after a download that extractBinary could not
\* read: installBinary was not called and the install root is empty
StagesRunInOrderWitness ==
    /\ mainStarted
    /\ pc = "exit"
    /\ exitCode = 1
    /\ downloadStage = "nil"
    /\ extractStage \notin {"nil", "pending"}
    /\ installStage = "pending"
    /\ fs = <<>>

---------------------------------------------------------------------------
(* Properties of parseTarget *)

\* the places of the character c in s
Places(s, c) == {i \in 1..Len(s) : s[i] = c}

\* the place of the first c in s, one past the end of s when it has none
FirstPlace(s, c) == IF Places(s, c) = {} THEN Len(s) + 1 ELSE Least(Places(s, c))

\* the part of s before its first "@"
BeforeAt(s) == SubSeq(s, 1, FirstPlace(s, "@") - 1)

\* the part before the first "@" has a "/", with text on both sides of the
\* first one
WellFormedTarget(s) ==
    /\ 1 < FirstPlace(BeforeAt(s), "/")
    /\ FirstPlace(BeforeAt(s), "/") < Len(BeforeAt(s))

\* C14: parseTarget(s) returns no error exactly when the part of s before the
\* first "@" has a "/" with text on both sides of its first "/"; then owner is
\* what precedes that "/", repo the rest up to the first "@", and tag all
\* that follows the first "@", empty without one; otherwise it returns the
\* invalid-target error.
ParseTargetExact ==
    pc = "done" =>
        IF WellFormedTarget(arg)
        THEN /\ parsed.err = "nil"
             /\ parsed.owner = SubSeq(arg, 1, FirstPlace(BeforeAt(arg), "/") - 1)
             /\ parsed.repo = SubSeq(arg, FirstPlace(BeforeAt(arg), "/") + 1, Len(BeforeAt(arg)))
             /\ parsed.tag = SubSeq(arg, FirstPlace(arg, "@") + 1, Len(arg))
        ELSE parsed.err = "invalid target"

\* o/o/o@/ was parsed: the repo keeps its slash, the tag is what follows the @
ParseTargetExactWitness ==
    /\ pc = "done"
    /\ arg = <<"o", "/", "o", "/", "o", "@", "/">>
    /\ parsed = Parsed(<<"o">>, <<"o", "/", "o">>, <<"/">>, "nil")

---------------------------------------------------------------------------
(* Properties of the OS test of selectAsset *)

\* C16: an artifact selectAsset returns for (goos, goarch) is a candidate for
\* no other operating system with the same architecture: no name passes the
\* OS test of two operating systems.
OsTestExclusive ==
    (selReturned /\ selResult.err = "nil") =>
        \A other \in DOMAIN osAliases \ {goos} :
            ~isCandidate(selResult.asset, osAliases[other], archAliases[goarch])

---------------------------------------------------------------------------
(* Properties of what purge leaves alone *)

\* what purge(owner, repo) may remove from the tree f: the version
\* directories of the package and what they hold
Purgeable(f, owner, repo) ==
    {p \in DOMAIN f : \E d \in VersionDirs(f, owner, repo) : IsPrefix(d, p)}

\* C17: a call purge(root, owner, repo) adds nothing to the tree, and leaves
\* as it was everything but the owner's directory itself and the directories
\* directly under it named repo@<tag> with their content: the versions of
\* other repositories of the owner, also of one whose name starts with repo,
\* the directories of other owners, plain files and the symlinks under bin.
PurgeTouchesOnlyItsPackage ==
    [][ callResult'.fn = "purge" =>
            LET owner == callResult'.args[1]
                repo == callResult'.args[2]
            IN  /\ DOMAIN fs' \subseteq DOMAIN fs
                /\ \A p \in DOMAIN fs \ (Purgeable(fs, owner, repo) \cup {<<GhinstDir, owner>>}) :
                       p \in DOMAIN fs' /\ fs'[p] = fs[p] ]_vars

\* purge(o, r) has just removed r@v1; r-cli@v1, the other owner's r@v1, the
\* plain file r@old and the link bin/tool are there
PurgeTouchesOnlyItsPackageWitness ==
    /\ callResult.fn = "purge"
    /\ callResult.args = << <<"o">>, <<"r">> >>
    /\ callResult.purged = << <<"r", "@", "v", "1">> >>
    /\ <<GhinstDir, <<"o">>, <<"r", "-", "c", "l", "i", "@", "v", "1">>, <<"t", "o", "o", "l">>>> \in DOMAIN fs
    /\ <<GhinstDir, <<"p">>, <<"r", "@", "v", "1">>, <<"t", "o", "o", "l">>>> \in DOMAIN fs
    /\ <<GhinstDir, <<"o">>, <<"r", "@", "o", "l", "d">>>> \in DOMAIN fs
    /\ fs[<<GhinstDir, <<"o">>, <<"r", "@", "o", "l", "d">>>>].kind = "file"
    /\ <<BinDir, <<"t", "o", "o", "l">>>> \in DOMAIN fs

---------------------------------------------------------------------------
(* Properties of installs followed by purges *)

\* C18: after installs that all succeed, each later than the one before, and
\* purges in any order, the version directory of the most recent install of
\* every package is still there, and so is the file its bin symlink points
\* to.  Each package installs a file name of its own here, so that the last
\* install of a name is the last install of its package.
LatestVersionSurvivesPurge ==
    \A binName \in DOMAIN latest :
        LET last == latest[binName]
            installDir == installDirOf(last.owner, last.repo, last.tag)
        IN  /\ installDir \in DOMAIN fs
            /\ <<BinDir, binName>> \in DOMAIN fs
            /\ fs[<<BinDir, binName>>].target \in DOMAIN fs

===========================================================================
